---- MODULE Spec2Model ----
(***************************************************************************)
(* A model of the tampermonkey-developer skill: the userscript validator   *)
(* and generator (shell scripts listed in SKILL.md) and the runtime        *)
(* patterns of the templates (waitForElement, RouteHandler,                *)
(* onLocationChange).                                                      *)
(*                                                                         *)
(* Text.  A file is a sequence of lines and a line is a sequence of        *)
(* lexemes (strings).  Lexemes are cut so that every pattern the scripts   *)
(* hand to grep or sed is itself a sequence of lexemes: "@namespace" is    *)
(* the two lexemes "@name" "space", a blank is the lexeme " ".             *)
(***************************************************************************)
EXTENDS Integers, Sequences, FiniteSets, TLC

VARIABLES
    script,     \* validator: content of the file under validation, or NoFile
    vrun,       \* validator: outcome of the latest run on that content, or NotRun
    vprev,      \* validator: outcome of the run on that content before it, or NotRun
    tmplGone,   \* generator: template kinds whose file is missing on disk
    outdir,     \* generator: output file name -> content, NoFile or a file
    grun,       \* generator: the latest invocation and its exit status, or NotRun
    wState,     \* waitForElement: "idle" | "pending" | "resolved" | "rejected"
    wObserving, \* waitForElement: the MutationObserver is subscribed
    wQueued,    \* waitForElement: a mutation notification awaits delivery
    wPresent,   \* document: the selector currently matches an element
    wNow,       \* Date.now()
    wStart,     \* waitForElement: startTime
    wTimeout,   \* waitForElement: the timeout argument
    wLog,       \* waitForElement: the resolve/reject calls made, in order
    routes,     \* RouteHandler.routes
    rrun,       \* router: the latest handle(url) call, or NotRun
    location,   \* location.href
    lastUrl,    \* SPA template: let lastUrl
    navQueued,  \* SPA template: pending events, subset of {"mutation","popstate"}
    navCalls,   \* SPA template: invocations of the onLocationChange callback
    navStep,    \* SPA template: the latest listener step, or NotRun
    pageLog,    \* SPA template: the calls of initPage and cleanup, in order
    tName,      \* generator: a name given as $1
    tTitle,     \* generator: SCRIPT_TITLE computed from it, or NotRun
    dUrl,       \* generator: a url pattern given as $2
    dDomain,    \* generator: DOMAIN computed from it, or NotRun
    gmStore,    \* bookmarker: GM storage, key -> stored string or Unset
    bmOp,       \* bookmarker: the latest operation, or NotRun
    sStore,     \* Settings: GM storage, key -> value stored or Undefined
    sDefaults,  \* Settings: this.defaults
    sOp,        \* Settings: the latest call and its result, or NotRun
    dTimers,    \* debounce: pending timers, each [id, due, args]
    dTimeout,   \* debounce: let timeout, the id of the timer set last (0: none)
    dNow,       \* debounce: the clock
    dCalls,     \* debounce: calls of the returned function, each [at, args]
    dInvoked,   \* debounce: invocations of func, each [at, args]
    gvRun,      \* the latest validator run on a template or a generated file
    iVideoId,   \* bookmarker init: what getVideoId() returns on the page
    iReady,     \* bookmarker init: document.readyState
    iStage,     \* bookmarker init: "start", "listening" or "inited"
    iPoll,      \* bookmarker init: the interval waitForVideo is set
    iVideo,     \* bookmarker init: the document holds a video element
    iButtons,   \* bookmarker init: toggle buttons created
    iPanels,    \* bookmarker init: panels created
    iTicks      \* bookmarker init: runs of the interval's callback

valVars   == <<script, vrun, vprev>>
genVars   == <<tmplGone, outdir, grun>>
waitVars  == <<wState, wObserving, wQueued, wPresent, wNow, wStart, wTimeout, wLog>>
routeVars == <<routes, rrun>>
navVars   == <<location, lastUrl, navQueued, navCalls, navStep, pageLog>>
pureVars  == <<tName, tTitle, dUrl, dDomain>>
bmVars    == <<gmStore, bmOp>>
setVars   == <<sStore, sDefaults, sOp>>
dbVars    == <<dTimers, dTimeout, dNow, dCalls, dInvoked>>
gvVars    == <<gvRun>>
pollVars  == <<iVideoId, iReady, iStage, iPoll, iVideo, iButtons, iPanels, iTicks>>
lateVars  == <<setVars, dbVars, gvVars, pollVars>>
vars      == <<valVars, genVars, waitVars, routeVars, navVars, pureVars, bmVars, lateVars>>

\* the content of a path at which there is no file (a value no file has)
NoFile == << <<"<no such file>">> >>
\* the value of a "latest run" variable before any run
NotRun == [ran |-> FALSE]

\* ---------------------------------------------------------------- bounds

MaxFileLines == 6
MaxTime      == 5    \* the clock stops advancing here
MaxTimeout   == 2    \* the largest timeout argument
MaxRoutes    == 3    \* routes registered with add
MaxNavCalls  == 3    \* callback invocations after which the page stops navigating
MaxVideoTime == 2    \* the largest video time, in seconds
MaxDebounceTime  == 5   \* the clock of the debounced function stops here
MaxDebounceCalls == 3   \* calls of the debounced function
DebounceWait     == 2   \* the wait argument of debounce
MaxPollTicks     == 5   \* runs of the bookmarker's poll callback

\* ------------------------------------------------------------------ text

Sp(n) == [i \in 1..n |-> " "]

\* A lexeme that is one character long (what '.' of a regular expression takes).
OneChar == {" ", ".", "(", ")", "=", "+", "$", "&", "|", "*", "/", "-", "{", "\\"}

\* line[i..] starts with the lexemes of pat
MatchAt(line, i, pat) ==
    /\ i + Len(pat) - 1 <= Len(line)
    /\ \A k \in 1..Len(pat) : line[i + k - 1] = pat[k]

\* grep "^pat"
HasPrefix(line, pat) == MatchAt(line, 1, pat)

\* grep "pat" for a literal pat
Contains(line, pat) == \E i \in 1..Len(line) : MatchAt(line, i, pat)

\* grep "a.*b" for literals a and b
ContainsThen(line, a, b) ==
    \E i \in 1..Len(line) :
        /\ MatchAt(line, i, a)
        /\ \E j \in (i + Len(a))..Len(line) : MatchAt(line, j, b)

\* grep "a.b": the literals a and b with any one character between them
ContainsDot(line, a, b) ==
    \E i \in 1..Len(line) :
        /\ MatchAt(line, i, a)
        /\ i + Len(a) <= Len(line)
        /\ line[i + Len(a)] \in OneChar
        /\ MatchAt(line, i + Len(a) + 1, b)

\* grep -E '\.innerHTML\s*=.*[\+\$]': inside the brackets the backslash is itself
\* a member of the set
InnerHtmlAssign(line) ==
    \E i \in 1..Len(line) :
        /\ MatchAt(line, i, <<".", "innerHTML">>)
        /\ \E j \in (i + 2)..Len(line) :
              /\ \A k \in (i + 2)..(j - 1) : line[k] = " "
              /\ line[j] = "="
              /\ \E m \in (j + 1)..Len(line) : line[m] \in {"\\", "+", "$"}

\* grep -q: some line of the file matches
GrepQ(P(_), file) == \E i \in DOMAIN file : P(file[i])

\* grep -c: the number of matching lines
GrepC(P(_), file) == Cardinality({i \in DOMAIN file : P(file[i])})

\* ------------------------------------------------------- lines of scripts

Meta(key, pad, value) == <<"//", " ", key>> \o Sp(pad) \o value

NameLine      == Meta("@name", 9, <<"My", " ", "Userscript">>)
NamespaceLine == <<"//", " ", "@name", "space">> \o Sp(4) \o <<"http://tampermonkey.net/">>
VersionLine   == Meta("@version", 6, <<"1.0.0">>)
MatchLine     == Meta("@match", 8, <<"https://", "example.com", "/", "*">>)
GrantLine(f)  == Meta("@grant", 8, <<f>>)
\* the same declaration written with a single blank, as Tampermonkey accepts it
GrantLine1(f) == Meta("@grant", 1, <<f>>)
IifeLine      == <<"(", "function", "(", ")", " ", "{">>
StrictLine    == Sp(4) \o <<"'use strict'", ";">>
LogLine       == Sp(4) \o <<"console", ".", "log", "(", "'x'", ")", ";">>
SetValueLine  == Sp(4) \o <<"GM_setValue", "(", "key", ",", " ", "value", ")", ";">>
OpenTabLine   == Sp(4) \o <<"GM_openInTab", "(", "url", ")", ";">>
UnsafeLine    == Sp(4) \o <<"unsafeWindow", ".", "app", " ", "=", " ", "null", ";">>
EvalLine      == Sp(4) \o <<"eval", "(", "code", ")", ";">>
HtmlLine      == Sp(4) \o <<"el", ".", "innerHTML", " ", "=", " ", "a", " ", "+", " ", "b", ";">>
TimerLine     == Sp(4) \o <<"setInterval", "(", "tick", ",", " ", "500", ")", ";">>

\* The lines input files are made of.
Pool == <<NameLine, NamespaceLine, VersionLine, MatchLine,
          GrantLine("GM_setValue"), GrantLine1("GM_setValue"),
          IifeLine, StrictLine, SetValueLine, OpenTabLine, UnsafeLine,
          EvalLine, HtmlLine, TimerLine, LogLine>>

PoolIndex(l) == CHOOSE i \in DOMAIN Pool : Pool[i] = l

\* ------------------------------------------------------------- validator
\* validate-userscript.sh

RequiredFields == <<"@name", "@version", "@match">>

GmFunctions == <<"GM_setValue", "GM_getValue", "GM_xmlhttpRequest", "GM_addStyle",
                 "GM_notification", "GM_setClipboard", "GM_openInTab">>

LogThreshold == 5

\* if ! grep -q "^// $field" "$SCRIPT_FILE"
MissingField(field, file) ==
    ~GrepQ(LAMBDA l : HasPrefix(l, <<"//", " ", field>>), file)

\* grant_line="@grant        $func"
GrantPattern(func) == <<"@grant">> \o Sp(8) \o <<func>>

\* if grep -q "$func" ...; then if ! grep -q "$grant_line" ...
UngrantedUse(func, file) ==
    /\ GrepQ(LAMBDA l : Contains(l, <<func>>), file)
    /\ ~GrepQ(LAMBDA l : Contains(l, GrantPattern(func)), file)

UngrantedUnsafeWindow(file) ==
    /\ GrepQ(LAMBDA l : Contains(l, <<"unsafeWindow">>), file)
    /\ ~GrepQ(LAMBDA l : ContainsThen(l, <<"@grant">>, <<"unsafeWindow">>), file)

QueryInLoop(file) ==
    GrepQ(LAMBDA l : \/ ContainsThen(l, <<"for">>, <<"querySelector">>)
                     \/ ContainsThen(l, <<"while">>, <<"querySelector">>), file)

IntervalNotCleared(file) ==
    /\ GrepQ(LAMBDA l : Contains(l, <<"setInterval">>), file)
    /\ ~GrepQ(LAMBDA l : Contains(l, <<"clearInterval">>), file)

ListenerNotRemoved(file) ==
    /\ GrepQ(LAMBDA l : Contains(l, <<"addEventListener">>), file)
    /\ ~GrepQ(LAMBDA l : Contains(l, <<"removeEventListener">>), file)

UsesEval(file) == GrepQ(LAMBDA l : Contains(l, <<"eval", "(">>), file)

InnerHtmlWithVariables(file) == GrepQ(InnerHtmlAssign, file)

UsesDocumentWrite(file) ==
    GrepQ(LAMBDA l : ContainsDot(l, <<"document">>, <<"write">>), file)

MissingStrict(file) ==
    /\ ~GrepQ(LAMBDA l : Contains(l, <<"'use strict'">>), file)
    /\ ~GrepQ(LAMBDA l : Contains(l, <<"\"use strict\"">>), file)

MissingIife(file) ==
    /\ ~GrepQ(LAMBDA l : Contains(l, <<"(", "function", "(", ")">>), file)
    /\ ~GrepQ(LAMBDA l : Contains(l, <<"(", "(", ")", " ", "=>", " ", "{">>), file)

\* log_count=$(grep -c "console.log" ...); [ "$log_count" -gt 5 ]
TooManyLogs(file) ==
    GrepC(LAMBDA l : ContainsDot(l, <<"console">>, <<"log">>), file) > LogThreshold

\* The checks in the order the script runs them; sev is the counter a finding
\* increments.
Checks ==
    [i \in 1..3 |-> [kind |-> "required", id |-> RequiredFields[i], sev |-> "error"]]
    \o [i \in 1..7 |-> [kind |-> "grant", id |-> GmFunctions[i], sev |-> "error"]]
    \o << [kind |-> "pattern", id |-> "unsafeWindow",     sev |-> "warning"],
          [kind |-> "pattern", id |-> "querySelector",    sev |-> "warning"],
          [kind |-> "pattern", id |-> "setInterval",      sev |-> "warning"],
          [kind |-> "pattern", id |-> "addEventListener", sev |-> "warning"],
          [kind |-> "pattern", id |-> "eval",             sev |-> "error"],
          [kind |-> "pattern", id |-> "innerHTML",        sev |-> "warning"],
          [kind |-> "pattern", id |-> "document.write",   sev |-> "warning"],
          [kind |-> "pattern", id |-> "use strict",       sev |-> "warning"],
          [kind |-> "pattern", id |-> "IIFE",             sev |-> "warning"],
          [kind |-> "pattern", id |-> "console.log",      sev |-> "warning"] >>

\* The condition under which check c prints its finding and counts it.
Fires(c, file) ==
    CASE c.kind = "required"       -> MissingField(c.id, file)
      [] c.kind = "grant"          -> UngrantedUse(c.id, file)
      [] c.id = "unsafeWindow"     -> UngrantedUnsafeWindow(file)
      [] c.id = "querySelector"    -> QueryInLoop(file)
      [] c.id = "setInterval"      -> IntervalNotCleared(file)
      [] c.id = "addEventListener" -> ListenerNotRemoved(file)
      [] c.id = "eval"             -> UsesEval(file)
      [] c.id = "innerHTML"        -> InnerHtmlWithVariables(file)
      [] c.id = "document.write"   -> UsesDocumentWrite(file)
      [] c.id = "use strict"       -> MissingStrict(file)
      [] c.id = "IIFE"             -> MissingIife(file)
      [] c.id = "console.log"      -> TooManyLogs(file)

\* The exit status of the arithmetic command ((X++)): the value of the
\* expression is the counter before the increment, and (( )) returns 1 when
\* that value is 0.
PostIncrStatus(old) == IF old = 0 THEN 1 ELSE 0

\* set -e: a simple command that returns non-zero ends the script with that
\* status.
ErrExit(status) == status # 0

\* The finding of check c: the message is echoed, then the counter is
\* incremented with ((ERRORS++)) or ((WARNINGS++)) under set -e.
Finding(st, c) ==
    LET old    == IF c.sev = "error" THEN st.errors ELSE st.warnings
        status == PostIncrStatus(old)
        st1    == [st EXCEPT !.reported = @ \cup {c.id},
                             !.errors   = IF c.sev = "error" THEN @ + 1 ELSE @,
                             !.warnings = IF c.sev = "warning" THEN @ + 1 ELSE @]
    IN  IF ErrExit(status)
        THEN [st1 EXCEPT !.exit = status, !.ended = "errexit"]
        ELSE st1

\* The summary: exit 0 unless ERRORS is non-zero.
Summary(st) ==
    [st EXCEPT !.exit = IF st.errors = 0 THEN 0 ELSE 1, !.ended = "summary"]

RECURSIVE RunChecks(_, _, _)
RunChecks(file, k, st) ==
    IF st.ended # "running" THEN st
    ELSE IF k > Len(Checks) THEN Summary(st)
    ELSE IF Fires(Checks[k], file) THEN RunChecks(file, k + 1, Finding(st, Checks[k]))
    ELSE RunChecks(file, k + 1, st)

\* counters that a run inherits from the run before it
ValStartKeepsCounts ==
    [exit |-> 0,
     errors |-> IF vrun.ran THEN vrun.out.errors ELSE 0,
     warnings |-> IF vrun.ran THEN vrun.out.warnings ELSE 0,
     reported |-> {}, ended |-> "running"]

\* ERRORS=0, WARNINGS=0
ValStart == [exit |-> 0, errors |-> 0, warnings |-> 0, reported |-> {}, ended |-> "running"]

\* The whole script on argument arg, the file at that path holding content.
ValidatorRun(arg, content) ==
    IF arg = "" THEN [ValStart EXCEPT !.exit = 1, !.ended = "usage"]
    ELSE IF content = NoFile THEN [ValStart EXCEPT !.exit = 1, !.ended = "notfound"]
    ELSE RunChecks(content, 1, ValStart)

ScriptPath == "script.user.js"

\* Input files are enumerated up to the order of their lines (every check is
\* line-wise and blind to order) and repeat only the console.log line, the one
\* line whose number of copies a check counts.
InputFile(f) ==
    /\ Len(f) <= MaxFileLines
    /\ \A k \in 1..(Len(f) - 1) :
          \/ PoolIndex(f[k]) < PoolIndex(f[k + 1])
          \/ f[k] = LogLine /\ f[k + 1] = LogLine

InsertAt(f, p, l) == SubSeq(f, 1, p) \o <<l>> \o SubSeq(f, p + 1, Len(f))

\* The user creates the (empty) file.
CreateScript ==
    /\ script = NoFile
    /\ script' = <<>>
    /\ vrun' = NotRun
    /\ vprev' = NotRun
    /\ UNCHANGED <<genVars, waitVars, routeVars, navVars, pureVars, bmVars, lateVars>>

\* The user adds a line to the file (at its place in the order of InputFile).
AddLine ==
    /\ script # NoFile
    /\ Len(script) < MaxFileLines
    /\ \E i \in DOMAIN Pool :
          LET p == Cardinality({k \in DOMAIN script : PoolIndex(script[k]) <= i})
          IN  /\ InputFile(InsertAt(script, p, Pool[i]))
              /\ script' = InsertAt(script, p, Pool[i])
    /\ vrun' = NotRun
    /\ vprev' = NotRun
    /\ UNCHANGED <<genVars, waitVars, routeVars, navVars, pureVars, bmVars, lateVars>>

\* bash validate-userscript.sh [arg]
Validate ==
    /\ \E arg \in {"", ScriptPath} :
          vrun' = [ran |-> TRUE, arg |-> arg, out |-> ValidatorRun(arg, script)]
    /\ vprev' = vrun
    /\ UNCHANGED <<script, genVars, waitVars, routeVars, navVars, pureVars, bmVars, lateVars>>

ValInit   == script = NoFile /\ vrun = NotRun /\ vprev = NotRun
ValParked == script = NoFile /\ vrun = NotRun /\ vprev = NotRun

\* ------------------------------------------------------------- templates
\* The metadata block of each template and, of its body, the lines that a
\* pattern of the validator or of the generator matches.  The lexeme "<bq>"
\* stands for a backquote.

BannerLine(b) == <<"//", " ", b>>
IconLine(host) == Meta("@icon", 9, <<"https://www.google.com/s2/favicons?sz=64", "&", "domain=">> \o host)
ObserverLine  == Sp(8) \o <<"new", " ", "MutationObserver", "(", "(", ")", " ", "=>", " ", "{">>

BasicTemplate ==
    << BannerLine("==UserScript=="),
       Meta("@name", 9, <<"My", " ", "Userscript">>),
       NamespaceLine,
       VersionLine,
       Meta("@description", 2, <<"Brief description of what this script does">>),
       Meta("@author", 7, <<"Your Name">>),
       MatchLine,
       IconLine(<<"example.com">>),
       GrantLine("none"),
       Meta("@run-at", 7, <<"document-end">>),
       BannerLine("==/UserScript=="),
       IifeLine,
       StrictLine,
       Sp(4) \o <<"console", ".", "log", "(", "'[", "My", " ", "Userscript", "]", " ", "Script loaded successfully'", ")", ";">>,
       Sp(8) \o <<"console", ".", "log", "(", "'[", "My", " ", "Userscript", "]", " ", "Initialized'", ")", ";">>,
       Sp(8) \o <<"document", ".", "addEventListener", "(", "'DOMContentLoaded'", ",", " ", "init", ")", ";">>,
       <<"}", ")", "(", ")", ";">> >>

AdvancedTemplate ==
    << BannerLine("==UserScript=="),
       Meta("@name", 9, <<"Advanced", " ", "Userscript", " ", "Template">>),
       NamespaceLine,
       VersionLine,
       Meta("@description", 2, <<"Full-featured template with utilities, error handling, and modern patterns">>),
       Meta("@author", 7, <<"Your Name">>),
       MatchLine,
       IconLine(<<"example.com">>),
       GrantLine("GM_setValue"),
       GrantLine("GM_getValue"),
       GrantLine("GM_addStyle"),
       GrantLine("GM_xmlhttpRequest"),
       Meta("@run-at", 7, <<"document-end">>),
       BannerLine("==/UserScript=="),
       IifeLine,
       StrictLine,
       Sp(8) \o <<"SCRIPT_NAME", ":", " ", "'", "Advanced", " ", "Userscript", "'", ",">>,
       Sp(16) \o <<"console", ".", "log", "(", "<bq>", "[${CONFIG.SCRIPT_NAME}]", "<bq>", ",", " ", "...args", ")", ";">>,
       Sp(16) \o <<"const", " ", "observer", " ", "=", " ", "new", " ", "MutationObserver", "(", "(", ")", " ", "=>", " ", "{">>,
       Sp(12) \o <<"const", " ", "value", " ", "=", " ", "GM_getValue", "(", "key", ")", ";">>,
       Sp(12) \o <<"GM_setValue", "(", "key", ",", " ", "value", ")", ";">>,
       Sp(4) \o <<"GM_addStyle", "(", "<bq>">>,
       Sp(8) \o <<"document", ".", "addEventListener", "(", "'DOMContentLoaded'", ",", " ", "(", ")", " ", "=>", " ", "script", ".", "init", "(", ")", ")", ";">>,
       <<"}", ")", "(", ")", ";">> >>

SpaTemplate ==
    << BannerLine("==UserScript=="),
       Meta("@name", 9, <<"SPA", "-", "Compatible", " ", "Template">>),
       NamespaceLine,
       VersionLine,
       Meta("@description", 2, <<"Template for Single Page Applications (React, Vue, Angular)">>),
       Meta("@author", 7, <<"Your Name">>),
       MatchLine,
       IconLine(<<"example.com">>),
       GrantLine("none"),
       Meta("@run-at", 7, <<"document-end">>),
       BannerLine("==/UserScript=="),
       IifeLine,
       StrictLine,
       Sp(4) \o <<"const", " ", "log", " ", "=", " ", "(", "...args", ")", " ", "=>", " ", "console", ".", "log", "(", "<bq>", "[${SCRIPT_NAME}]", "<bq>", ",", " ", "...args", ")", ";">>,
       ObserverLine,
       Sp(8) \o <<"window", ".", "addEventListener", "(", "'popstate'", ",", " ", "(", ")", " ", "=>", " ", "{">>,
       <<"}", ")", "(", ")", ";">> >>

TemplateKinds == {"basic", "advanced", "spa"}

\* case "$TEMPLATE" in basic) ... advanced) ... spa) ...
TemplateFile(kind) ==
    CASE kind = "basic"    -> BasicTemplate
      [] kind = "advanced" -> AdvancedTemplate
      [] kind = "spa"      -> SpaTemplate

\* ------------------------------------------------------------- generator
\* generate-userscript.sh

\* Lexemes that hold a '/'.
SlashLexemes == {"/", "http://", "https://", "*://", "://"}

\* sed -E 's|https?://([^/]+).*|\1|': from the first scheme that a host
\* follows, keep the host (the lexemes up to the next '/'); text before the
\* scheme stays, and a url the pattern does not match passes unchanged.
StripToHost(url) ==
    LET starts == {i \in 1..(Len(url) - 1) :
                      url[i] \in {"http://", "https://"} /\ url[i + 1] \notin SlashLexemes}
    IN  IF starts = {} THEN url
        ELSE LET i == CHOOSE x \in starts : \A y \in starts : x <= y
                 stop == {j \in (i + 1)..Len(url) : url[j] \in SlashLexemes}
                 e == IF stop = {} THEN Len(url)
                      ELSE (CHOOSE x \in stop : \A y \in stop : x <= y) - 1
             IN  SubSeq(url, 1, i - 1) \o SubSeq(url, i + 1, e)

\* sed 's/\*/example.com/': the first '*' only
ReplaceFirstStar(text) ==
    LET stars == {i \in DOMAIN text : text[i] = "*"}
    IN  IF stars = {} THEN text
        ELSE LET i == CHOOSE x \in stars : \A y \in stars : x <= y
             IN  SubSeq(text, 1, i - 1) \o <<"example.com">> \o SubSeq(text, i + 1, Len(text))

\* DOMAIN=$(echo "$TARGET_URL" | sed -E ... | sed ...)
Domain(url) == ReplaceFirstStar(StripToHost(url))

\* a title whose words keep the case they have in the name
CapitalizeNothing(word) == word

\* \u\1 on the first character of a word
Capitalize(word) ==
    CASE word = "dark"       -> "Dark"
      [] word = "mode"       -> "Mode"
      [] word = "my"         -> "My"
      [] word = "userscript" -> "Userscript"
      [] word = "dARK"       -> "DARK"
      [] word = "darkMode"   -> "DarkMode"
      [] OTHER               -> word

\* SCRIPT_TITLE=$(echo "$SCRIPT_NAME" | sed 's/-/ /g' | sed 's/\b\(.\)/\u\1/g')
ScriptTitle(name) ==
    [i \in DOMAIN name |-> IF name[i] = "-" THEN " " ELSE Capitalize(name[i])]

\* The replacement text of an s command as sed reads it: '&' stands for the
\* matched text and '\&' for an ampersand.
RECURSIVE Expand(_, _)
Expand(repl, matched) ==
    IF repl = <<>> THEN <<>>
    ELSE (CASE Head(repl) = "&"   -> matched
            [] Head(repl) = "\\&" -> <<"&">>
            [] OTHER              -> <<Head(repl)>>)
         \o Expand(Tail(repl), matched)

\* s|key.*|repl| on one line
SubstToEnd(line, key, repl) ==
    LET hits == {i \in DOMAIN line : line[i] = key}
    IN  IF hits = {} THEN line
        ELSE LET i == CHOOSE x \in hits : \A y \in hits : x <= y
             IN  SubSeq(line, 1, i - 1) \o Expand(repl, SubSeq(line, i, Len(line)))

\* s|pat|repl|g on one line, pat a literal
RECURSIVE SubstAll(_, _, _)
SubstAll(line, pat, repl) ==
    IF line = <<>> THEN <<>>
    ELSE IF MatchAt(line, 1, pat)
         THEN Expand(repl, pat) \o SubstAll(SubSeq(line, Len(pat) + 1, Len(line)), pat, repl)
         ELSE <<Head(line)>> \o SubstAll(Tail(line), pat, repl)

\* The s commands of the script, "s|...|...|" with the shell variables
\* already interpolated.
SedCommands(title, url, domain) ==
    << [toEnd |-> TRUE,  pat |-> <<"@name">>,  repl |-> <<"@name">> \o Sp(9) \o title],
       [toEnd |-> TRUE,  pat |-> <<"@match">>, repl |-> <<"@match">> \o Sp(8) \o url],
       [toEnd |-> TRUE,  pat |-> <<"@icon">>,
        repl |-> <<"@icon">> \o Sp(9)
                 \o <<"https://www.google.com/s2/favicons?sz=64", "\\&", "domain=">> \o domain],
       [toEnd |-> FALSE, pat |-> <<"My", " ", "Userscript">>, repl |-> title],
       [toEnd |-> FALSE, pat |-> <<"Advanced", " ", "Userscript", " ", "Template">>, repl |-> title],
       [toEnd |-> FALSE, pat |-> <<"SPA", "-", "Compatible", " ", "Template">>, repl |-> title] >>

\* sed rejects the command when the interpolated text holds the delimiter '|'
\* ("unknown option to s").
SedRejects(cmd) == \E i \in DOMAIN cmd.repl : cmd.repl[i] = "|"

\* sed -i "s|..|..|" "$OUTPUT_FILE": every line of the file
SedFile(cmd, file) ==
    [i \in DOMAIN file |->
        IF cmd.toEnd THEN SubstToEnd(file[i], cmd.pat[1], cmd.repl)
        ELSE SubstAll(file[i], cmd.pat, cmd.repl)]

\* The sed commands from the k-th on; under set -e a rejected command ends the
\* script with status 1 and the file stays as the earlier commands left it.
RECURSIVE RunSed(_, _, _)
RunSed(cmds, k, file) ==
    IF k > Len(cmds) THEN [exit |-> 0, file |-> file]
    ELSE IF SedRejects(cmds[k]) THEN [exit |-> 1, file |-> file]
    ELSE RunSed(cmds, k + 1, SedFile(cmds[k], file))

\* cp "$TEMPLATE_FILE" "$OUTPUT_FILE" and the substitutions
Render(kind, name, url) ==
    RunSed(SedCommands(ScriptTitle(name), url, Domain(url)), 1, TemplateFile(kind))

\* Arguments the generator is run with; <<>> and "" are an argument left out.
NameDarkMode == <<"dark", "-", "mode">>
NameMyScript == <<"my", "-", "userscript">>
Names        == {NameDarkMode, NameMyScript}

UrlGithub == <<"https://", "github.com", "/", "*">>
UrlQuery  == <<"https://", "example.com", "/", "?a=1", "&", "b=2">>
UrlPipe   == <<"https://", "x.org", "/", "a", "|", "b">>
Urls      == {UrlGithub, UrlQuery, UrlPipe}

KindArgs == {"", "basic", "advanced", "spa", "api"}

\* What read -n 1 finds on standard input: one character, a bare Enter (""),
\* or the end of input.
Replies == {"y", "Y", "n", "", "EOF"}

\* Render, computed once for each triple of arguments.
RenderTable == [k \in TemplateKinds, n \in Names, u \in Urls |-> Render(k, n, u)]

\* Rejects without the test that the template file exists.
RejectsSkipsTemplateTest(name, url, kindArg, gone) ==
    LET template == IF kindArg = "" THEN "basic" ELSE kindArg
    IN  IF name = <<>> \/ url = <<>> THEN "usage"
        ELSE IF template \notin TemplateKinds THEN "invalid-template"
        ELSE ""

\* The checks before the overwrite prompt: the reason the script ends with
\* status 1, or "" when it goes on.  gone: the template kinds whose file is
\* missing.
Rejects(name, url, kindArg, gone) ==
    LET template == IF kindArg = "" THEN "basic" ELSE kindArg   \* ${3:-basic}
    IN  IF name = <<>> \/ url = <<>> THEN "usage"
        ELSE IF template \notin TemplateKinds THEN "invalid-template"
        ELSE IF template \in gone THEN "template-not-found"
        ELSE ""

\* if [ -f "$OUTPUT_FILE" ]: the script asks "Overwrite? (y/N)" and reads the
\* reply.
Prompts(name, url, kindArg, dir, gone) ==
    Rejects(name, url, kindArg, gone) = "" /\ dir[name] # NoFile

\* Confirms with the prompt's default turned into yes: only n or N declines.
ConfirmsUnlessNo(reply) == reply \notin {"n", "N"}

\* [[ $REPLY =~ ^[Yy]$ ]]
Confirms(reply) == reply \in {"y", "Y"}

\* The whole script: dir is the working directory (output name -> content).
GeneratorRun(name, url, kindArg, reply, dir, gone) ==
    LET template == IF kindArg = "" THEN "basic" ELSE kindArg
        why == Rejects(name, url, kindArg, gone)
        asked == Prompts(name, url, kindArg, dir, gone)
    IN  IF why # "" THEN [exit |-> 1, ended |-> why, dir |-> dir]
        \* read returns non-zero at the end of input, and set -e ends the script
        ELSE IF asked /\ reply = "EOF" THEN [exit |-> 1, ended |-> "read-failed", dir |-> dir]
        ELSE IF asked /\ ~Confirms(reply) THEN [exit |-> 0, ended |-> "aborted", dir |-> dir]
        ELSE LET r == RenderTable[template, name, url]
             IN  [exit  |-> r.exit,
                  ended |-> IF r.exit = 0 THEN "generated" ELSE "sed-failed",
                  dir   |-> [dir EXCEPT ![name] = r.file]]

\* bash generate-userscript.sh [name] [url] [kind], with reply on standard
\* input ("-" when the script does not read it)
GenerateCall(name, url, kindArg, reply) ==
    LET out == GeneratorRun(name, url, kindArg, reply, outdir, tmplGone)
    IN  /\ outdir' = out.dir
        /\ grun' = [ran |-> TRUE, name |-> name, url |-> url, kind |-> kindArg,
                    reply |-> reply, exit |-> out.exit, ended |-> out.ended]
        /\ UNCHANGED <<tmplGone, valVars, waitVars, routeVars, navVars, pureVars, bmVars, lateVars>>

\* The <name> <url> argument pairs the generator is run with.
ArgPairs == {<<NameDarkMode, UrlGithub>>, <<NameDarkMode, UrlQuery>>,
             <<NameDarkMode, UrlPipe>>, <<NameMyScript, UrlGithub>>,
             <<NameDarkMode, <<>>>>, <<<<>>, UrlGithub>>, <<<<>>, <<>>>>}

Generate ==
    \E args \in ArgPairs : \E kindArg \in KindArgs :
        \E reply \in IF Prompts(args[1], args[2], kindArg, outdir, tmplGone)
                     THEN Replies ELSE {"-"} :
            GenerateCall(args[1], args[2], kindArg, reply)

GenInit == /\ tmplGone \in {{}, {"spa"}}
           /\ outdir = [n \in Names |-> NoFile]
           /\ grun = NotRun

\* -------------------------------------------------------- waitForElement
\* spa-compatible.user.js waitForElement; Utils.waitForElement of
\* advanced-template.user.js is the same code.

\* A promise settles once: resolve or reject on a settled promise has no effect.
Settle(state, call) ==
    IF state # "pending" THEN state
    ELSE IF call = "resolve" THEN "resolved" ELSE "rejected"

\* The observer callback with disconnect() left out of the branch that resolves.
ObserverCallbackKeepsObserving(found, now, start, timeout) ==
    IF found THEN [disconnect |-> FALSE, call |-> "resolve"]
    ELSE IF now - start > timeout THEN [disconnect |-> TRUE, call |-> "reject"]
    ELSE [disconnect |-> FALSE, call |-> "none"]

\* The MutationObserver callback: what it does given the result of
\* document.querySelector(selector) and Date.now().
ObserverCallback(found, now, start, timeout) ==
    IF found THEN [disconnect |-> TRUE, call |-> "resolve"]
    ELSE IF now - start > timeout THEN [disconnect |-> TRUE, call |-> "reject"]
    ELSE [disconnect |-> FALSE, call |-> "none"]

\* waitForElement(selector, timeout): the promise executor.
WaitCall ==
    /\ wState = "idle"
    /\ \E timeout \in 0..MaxTimeout : wTimeout' = timeout
    /\ wStart' = wNow
    /\ IF wPresent
       THEN /\ wState' = "resolved"
            /\ wLog' = Append(wLog, [call |-> "resolve", via |-> "executor"])
            /\ wObserving' = FALSE
       ELSE /\ wState' = "pending"
            /\ wLog' = wLog
            /\ wObserving' = TRUE
    /\ UNCHANGED <<wQueued, wPresent, wNow>>
    /\ UNCHANGED <<valVars, genVars, routeVars, navVars, pureVars, bmVars, lateVars>>

\* The page adds or removes nodes under document.body; after it the selector
\* matches or not.  A subscribed observer gets a notification queued.
DomMutation ==
    /\ \E found \in BOOLEAN : wPresent' = found
    /\ wQueued' = (wQueued \/ wObserving)
    /\ UNCHANGED <<wState, wObserving, wNow, wStart, wTimeout, wLog>>
    /\ UNCHANGED <<valVars, genVars, routeVars, navVars, pureVars, bmVars, lateVars>>

\* The page changes an attribute so that the selector starts or stops matching:
\* the observer watches childList and subtree only and is not notified.
AttributeChange ==
    /\ wPresent' = ~wPresent
    /\ UNCHANGED <<wState, wObserving, wQueued, wNow, wStart, wTimeout, wLog>>
    /\ UNCHANGED <<valVars, genVars, routeVars, navVars, pureVars, bmVars, lateVars>>

\* The queued notification is delivered: the observer callback runs.
Deliver ==
    /\ wObserving /\ wQueued
    /\ LET act == ObserverCallback(wPresent, wNow, wStart, wTimeout)
       IN  /\ wObserving' = ~act.disconnect
           /\ wState' = IF act.call = "none" THEN wState ELSE Settle(wState, act.call)
           /\ wLog' = IF act.call = "none" THEN wLog
                      ELSE Append(wLog, [call |-> act.call, via |-> "observer"])
    /\ wQueued' = FALSE
    /\ UNCHANGED <<wPresent, wNow, wStart, wTimeout>>
    /\ UNCHANGED <<valVars, genVars, routeVars, navVars, pureVars, bmVars, lateVars>>

\* Time passes.
Tick ==
    /\ wNow < MaxTime
    /\ wNow' = wNow + 1
    /\ UNCHANGED <<wState, wObserving, wQueued, wPresent, wStart, wTimeout, wLog>>
    /\ UNCHANGED <<valVars, genVars, routeVars, navVars, pureVars, bmVars, lateVars>>

WaitInit == /\ wState = "idle" /\ wObserving = FALSE /\ wQueued = FALSE
            /\ wPresent \in BOOLEAN /\ wNow = 0 /\ wStart = 0 /\ wTimeout = 0
            /\ wLog = <<>>

\* ----------------------------------------------------------- RouteHandler
\* spa-compatible.user.js class RouteHandler.  A url and a string pattern are
\* sequences of lexemes ("/", a path segment, ":id", "*", "."); a RegExp
\* pattern is one of the form /^prefix/, as the template's /^\/search\?.*/.

StringPattern(text) == [kind |-> "string", text |-> text]
RegExpPrefix(prefix) == [kind |-> "regexp", text |-> prefix]

NoMatch == [ok |-> FALSE, params |-> <<>>]

\* The elements of the regular expression built from a string pattern:
\* .replace(/:[^\s/]+/g, '([^/]+)') turns a placeholder into a group and
\* .replace(/\*/g, '.*') a star into a wildcard; every other lexeme is regular
\* expression source as it stands ("." takes any one character).
IsPlaceholder(lex) == lex \in {":id", ":postId", ":name"}

\* url against the elements elems of ^...$; params are the captured groups.
\* A group and a wildcard are greedy: the longest stretch that lets the rest
\* match.
RECURSIVE RegexMatch(_, _)
RegexMatch(elems, url) ==
    IF elems = <<>> THEN (IF url = <<>> THEN [ok |-> TRUE, params |-> <<>>] ELSE NoMatch)
    ELSE LET e == Head(elems)
             rest(k) == RegexMatch(Tail(elems), SubSeq(url, k + 1, Len(url)))
         IN  IF IsPlaceholder(e) THEN
                 LET ks == {k \in 1..Len(url) :
                               /\ \A j \in 1..k : url[j] # "/"
                               /\ rest(k).ok}
                 IN  IF ks = {} THEN NoMatch
                     ELSE LET k == CHOOSE x \in ks : \A y \in ks : y <= x
                          IN  [ok |-> TRUE, params |-> <<SubSeq(url, 1, k)>> \o rest(k).params]
             ELSE IF e = "*" THEN
                 LET ks == {k \in 0..Len(url) : rest(k).ok}
                 IN  IF ks = {} THEN NoMatch
                     ELSE rest(CHOOSE x \in ks : \A y \in ks : y <= x)
             ELSE IF url # <<>> /\ (url[1] = e \/ (e = "." /\ url[1] \in OneChar))
                  THEN rest(1)
             ELSE NoMatch

\* url.match(regex) for the regex of one route
RouteMatch(pattern, url) ==
    IF pattern.kind = "regexp"
    THEN IF MatchAt(url, 1, pattern.text) THEN [ok |-> TRUE, params |-> <<>>] ELSE NoMatch
    ELSE RegexMatch(pattern.text, url)

NoRoute == [found |-> FALSE, handler |-> "", params |-> <<>>]

\* for (const route of this.routes) ... from the k-th route on
RECURSIVE MatchFrom(_, _, _)
MatchFrom(rs, k, url) ==
    IF k > Len(rs) THEN NoRoute
    ELSE LET m == RouteMatch(rs[k].pattern, url)
         IN  IF m.ok THEN [found |-> TRUE, handler |-> rs[k].handler, params |-> m.params]
             ELSE MatchFrom(rs, k + 1, url)

\* match that lets a later matching route replace an earlier one
MatchLastWins(rs, url) ==
    LET ms == {k \in DOMAIN rs : RouteMatch(rs[k].pattern, url).ok}
    IN  IF ms = {} THEN NoRoute
        ELSE LET k == CHOOSE x \in ms : \A y \in ms : y <= x
             IN  [found |-> TRUE, handler |-> rs[k].handler,
                  params |-> RouteMatch(rs[k].pattern, url).params]

\* match(url)
Match(rs, url) == MatchFrom(rs, 1, url)

Patterns == { StringPattern(<<"/", "user", "/", ":id">>),
              StringPattern(<<"/", "user", "/", "*">>),
              StringPattern(<<"/", "home">>),
              StringPattern(<<"/", "index", ".", "html">>),
              RegExpPrefix(<<"/", "user">>) }

Handlers == {"handlerA", "handlerB"}

Pathnames == { <<"/", "user", "/", "42">>,
               <<"/", "user", "/", "42", "/", "edit">>,
               <<"/", "home">>,
               <<"/", "index", ".", "html">>,
               <<"/", "index", "-", "html">>,
               <<"/", "about">> }

\* add(pattern, handler)
AddRoute ==
    /\ Len(routes) < MaxRoutes
    /\ \E pattern \in Patterns : \E handler \in Handlers :
          routes' = Append(routes, [pattern |-> pattern, handler |-> handler])
    /\ rrun' = NotRun
    /\ UNCHANGED <<valVars, genVars, waitVars, navVars, pureVars, bmVars, lateVars>>

\* handle(url): calls lists the handler invocations it makes
Handle ==
    /\ \E url \in Pathnames :
          LET result == Match(routes, url)
          IN  rrun' = [ran |-> TRUE, url |-> url, matched |-> result,
                       calls |-> IF result.found
                                 THEN <<[handler |-> result.handler, args |-> result.params]>>
                                 ELSE <<>>,
                       ret |-> result.found]
    /\ UNCHANGED <<routes, valVars, genVars, waitVars, navVars, pureVars, bmVars, lateVars>>

RouteInit == routes = <<>> /\ rrun = NotRun

\* ------------------------------------------------------- onLocationChange
\* spa-compatible.user.js lines 17-48.  location is location.href, lastUrl
\* the script's variable, navQueued the notifications the browser has yet to
\* deliver to the two listeners, navCalls the invocations of the callback:
\* the url passed and the value of lastUrl at the moment of the call.

Hrefs == {"https://app.example/", "https://app.example/inbox", "https://app.example/sent"}

\* a listener that hands the url to the callback before it records it
LocationStepCallsFirst(currentUrl, last) ==
    IF currentUrl # last
    THEN [lastUrl |-> currentUrl, calls |-> <<[url |-> currentUrl, lastUrl |-> last]>>]
    ELSE [lastUrl |-> last, calls |-> <<>>]

\* a listener that calls the callback and leaves lastUrl as it was
LocationStepForgets(currentUrl, last) ==
    IF currentUrl # last
    THEN [lastUrl |-> last, calls |-> <<[url |-> currentUrl, lastUrl |-> last]>>]
    ELSE [lastUrl |-> last, calls |-> <<>>]

\* The body of either listener: const currentUrl = location.href;
\* if (currentUrl !== lastUrl) { lastUrl = currentUrl; callback(currentUrl); }
LocationStep(currentUrl, last) ==
    IF currentUrl # last
    THEN [lastUrl |-> currentUrl, calls |-> <<[url |-> currentUrl, lastUrl |-> currentUrl]>>]
    ELSE [lastUrl |-> last, calls |-> <<>>]

\* a callback that starts initPage before it cleans up
OnNavigationInitFirst(url) == <<"initPage", "cleanup">>

\* the callback given to onLocationChange: (url) => { cleanup(); initPage(); }
OnNavigation(url) == <<"cleanup", "initPage">>

Listener(kind) ==
    LET step == LocationStep(location, lastUrl)
    IN  /\ lastUrl' = step.lastUrl
        /\ navCalls' = navCalls \o step.calls
        /\ pageLog' = IF step.calls = <<>> THEN pageLog
                      ELSE pageLog \o OnNavigation(step.calls[1].url)
        /\ navStep' = [ran |-> TRUE, kind |-> kind, observed |-> location,
                       before |-> lastUrl, after |-> step.lastUrl,
                       invoked |-> step.calls # <<>>, calls |-> step.calls]
        /\ navQueued' = navQueued \ {kind}
        /\ UNCHANGED <<location, valVars, genVars, waitVars, routeVars, pureVars, bmVars, lateVars>>

\* the MutationObserver callback
MutationCallback ==
    /\ "mutation" \in navQueued
    /\ Listener("mutation")

\* the popstate listener
PopstateListener ==
    /\ "popstate" \in navQueued
    /\ Listener("popstate")

\* The page calls history.pushState: the location changes, no event fires.
PushState ==
    /\ Len(navCalls) < MaxNavCalls
    /\ \E url \in Hrefs : location' = url
    /\ UNCHANGED <<lastUrl, navQueued, navCalls, navStep, pageLog, valVars, genVars, waitVars, routeVars, pureVars, bmVars, lateVars>>

\* The page adds or removes nodes under document.
PageRender ==
    /\ navQueued' = navQueued \cup {"mutation"}
    /\ UNCHANGED <<location, lastUrl, navCalls, navStep, pageLog, valVars, genVars, waitVars, routeVars, pureVars, bmVars, lateVars>>

\* The user goes back or forward: the location changes and popstate fires.
BackForward ==
    /\ Len(navCalls) < MaxNavCalls
    /\ \E url \in Hrefs : location' = url
    /\ navQueued' = navQueued \cup {"popstate"}
    /\ UNCHANGED <<lastUrl, navCalls, navStep, pageLog, valVars, genVars, waitVars, routeVars, pureVars, bmVars, lateVars>>

\* let lastUrl = location.href; initPage() at the start; onLocationChange
\* registered
NavInit ==
    /\ location \in Hrefs
    /\ lastUrl = location
    /\ navQueued = {}
    /\ navCalls = <<>>
    /\ navStep = NotRun
    /\ pageLog = <<"initPage">>

\* ------------------------------------- generator: SCRIPT_TITLE and DOMAIN
\* The two values the generator computes from its arguments, each on inputs
\* of its own.

\* words of a name, in several spellings of their letters' case
NameWords == {"dark", "Dark", "DARK", "dARK", "mode", "MODE", "darkMode"}

\* names of one word or of two words joined with '-'
TitleNames == {<<w>> : w \in NameWords} \cup {<<v, "-", w>> : v, w \in NameWords}

\* url patterns: a scheme or none, a host, a path or none
UrlSchemes == {<<"https://">>, <<"http://">>, <<"*", "://">>, <<>>}
UrlHosts   == {<<"github.com">>, <<"*", ".", "github.com">>, <<"*">>, <<"*", ".", "x", ".", "*">>}
UrlPaths   == {<<>>, <<"/">>, <<"/", "*">>, <<"/", "a", "/", "*">>}
UrlPatterns == {sch \o h \o pa : sch \in UrlSchemes, h \in UrlHosts, pa \in UrlPaths}

\* SCRIPT_TITLE=$(...)
MakeTitle ==
    /\ ~tTitle.ran
    /\ tTitle' = [ran |-> TRUE, value |-> ScriptTitle(tName)]
    /\ UNCHANGED <<tName, dUrl, dDomain, valVars, genVars, waitVars, routeVars, navVars, bmVars, lateVars>>

\* DOMAIN=$(...)
MakeDomain ==
    /\ ~dDomain.ran
    /\ dDomain' = [ran |-> TRUE, value |-> Domain(dUrl)]
    /\ UNCHANGED <<tName, tTitle, dUrl, valVars, genVars, waitVars, routeVars, navVars, bmVars, lateVars>>

TitleInit  == tName \in TitleNames /\ tTitle = NotRun
DomainInit == dUrl \in UrlPatterns /\ dDomain = NotRun

\* ------------------------------------------------------ example bookmarker
\* README.md, "YouTube Timestamp Bookmarker".  gmStore is the script's
\* GM_setValue/GM_getValue storage: key -> the stored string, as a sequence
\* of JSON lexemes, or Unset.  A list of bookmarks is a sequence of records
\* [time, note].

Unset == <<"<unset>">>

VideoIds == {"dQw4", "kJQP", "null"}   \* params.get('v'); null off a video page

VideoTimes == 0..MaxVideoTime

\* a number as JSON.stringify and the data-time attribute write it
Decimal == <<"0", "1", "2", "3", "4", "5", "6", "7", "8", "9">>
NumberText(n) == Decimal[n + 1]
\* a number as JSON.parse and parseInt read it
TextNumber(text) == (CHOOSE i \in DOMAIN Decimal : Decimal[i] = text) - 1

\* JSON.stringify(bookmarks)
RECURSIVE StringifyItems(_)
StringifyItems(bookmarks) ==
    IF bookmarks = <<>> THEN <<>>
    ELSE <<"{", "time", NumberText(Head(bookmarks).time), "note", Head(bookmarks).note, "}">>
         \o StringifyItems(Tail(bookmarks))
JsonStringify(bookmarks) == <<"[">> \o StringifyItems(bookmarks) \o <<"]">>

\* JSON.parse(stored)
JsonParse(stored) ==
    [i \in 1..((Len(stored) - 2) \div 6) |->
        [time |-> TextNumber(stored[6 * i - 2]), note |-> stored[6 * i]]]

\* a key shared by all videos
StorageKeyShared(videoId) == <<"bookmarks_", "null">>

\* getStorageKey(), given what getVideoId() returns
StorageKey(videoId) == <<"bookmarks_", videoId>>

StorageKeys == {StorageKey(v) : v \in VideoIds}

\* GM_getValue(key, '[]')
GmGetValue(store, key) == IF store[key] = Unset THEN JsonStringify(<<>>) ELSE store[key]

\* getBookmarks()
GetBookmarks(store, videoId) == JsonParse(GmGetValue(store, StorageKey(videoId)))

\* saveBookmarks(bookmarks)
SaveBookmarks(store, videoId, bookmarks) ==
    [store EXCEPT ![StorageKey(videoId)] = JsonStringify(bookmarks)]

\* a sort that leaves the list as it is
SortKeepsOrder(bookmarks) == bookmarks

\* bookmarks.sort((a, b) => a.time - b.time): stable, ascending by time
RECURSIVE SortByTime(_)
SortByTime(bookmarks) ==
    IF bookmarks = <<>> THEN <<>>
    ELSE LET n == Len(bookmarks)
             front == SortByTime(SubSeq(bookmarks, 1, n - 1))
             last == bookmarks[n]
             p == Cardinality({i \in DOMAIN front : front[i].time <= last.time})
         IN  SubSeq(front, 1, p) \o <<last>> \o SubSeq(front, p + 1, Len(front))

\* bookmarks.filter(b => b.time !== time)
FilterOut(bookmarks, time) ==
    SelectSeq(bookmarks, LAMBDA b : b.time # time)

\* addBookmark(), on the video videoId at the time getCurrentTime() returns
AddBookmark ==
    \E videoId \in VideoIds : \E time \in VideoTimes :
        LET bookmarks == GetBookmarks(gmStore, videoId)
            exists == \E i \in DOMAIN bookmarks : bookmarks[i].time = time
        IN  /\ gmStore' = IF exists THEN gmStore
                          ELSE SaveBookmarks(gmStore, videoId,
                                   SortByTime(Append(bookmarks, [time |-> time, note |-> ""])))
            /\ bmOp' = [ran |-> TRUE, op |-> "add", videoId |-> videoId, time |-> time,
                        alerted |-> exists]
            /\ UNCHANGED <<valVars, genVars, waitVars, routeVars, navVars, pureVars, lateVars>>

\* deleteBookmark(time), from a Delete button whose data-time reads time
DeleteBookmark ==
    \E videoId \in VideoIds : \E time \in VideoTimes :
        LET bookmarks == GetBookmarks(gmStore, videoId)
        IN  /\ gmStore' = SaveBookmarks(gmStore, videoId,
                              FilterOut(bookmarks, TextNumber(NumberText(time))))
            /\ bmOp' = [ran |-> TRUE, op |-> "delete", videoId |-> videoId, time |-> time,
                        alerted |-> FALSE]
            /\ UNCHANGED <<valVars, genVars, waitVars, routeVars, navVars, pureVars, lateVars>>

\* nothing stored yet
BookmarkInit == gmStore = [k \in StorageKeys |-> Unset] /\ bmOp = NotRun

\* ---------------------------------------------------------------- Settings
\* advanced-template.user.js class Settings.  A JavaScript value is a record
\* of its type and its text; sStore is the script's GM storage, key -> the
\* value stored or Undefined.

JsValue(type, text) == [type |-> type, text |-> text]
Undefined == JsValue("undefined", "undefined")

\* the values given to set: the falsy ones false, 0 and '' among them
SettingValues == { JsValue("boolean", "true"), JsValue("boolean", "false"),
                   JsValue("number", "0"), JsValue("number", "50"),
                   JsValue("string", ""), JsValue("string", "light") }

\* new Settings({ enabled: true, theme: 'dark' })
TemplateDefaults ==
    [key \in {"enabled", "theme"} |->
        IF key = "enabled" THEN JsValue("boolean", "true") ELSE JsValue("string", "dark")]

\* keys the script reads and writes; maxItems has no default
SettingKeys == {"enabled", "theme", "maxItems"}

\* the tests of JavaScript's conditional: false, 0 and '' count as absent
Truthy(value) ==
    value \notin {Undefined, JsValue("boolean", "false"), JsValue("number", "0"),
                  JsValue("string", "")}

\* this.defaults[key]
DefaultOf(defaults, key) == IF key \in DOMAIN defaults THEN defaults[key] ELSE Undefined

\* get with a test of the value's truth in place of the test against undefined
SettingsGetTruthy(store, defaults, key) ==
    IF Truthy(store[key]) THEN store[key] ELSE DefaultOf(defaults, key)

\* get(key): value !== undefined ? value : this.defaults[key]
SettingsGet(store, defaults, key) ==
    IF store[key] # Undefined THEN store[key] ELSE DefaultOf(defaults, key)

\* getAll(): for (const key in this.defaults) settings[key] = this.get(key)
SettingsGetAll(store, defaults) ==
    [key \in DOMAIN defaults |-> SettingsGet(store, defaults, key)]

\* settings.set(key, value)
SetSetting ==
    \E key \in SettingKeys : \E value \in SettingValues :
        /\ sStore' = [sStore EXCEPT ![key] = value]
        /\ sOp' = [ran |-> TRUE, op |-> "set", key |-> key, value |-> value,
                   result |-> Undefined]
        /\ UNCHANGED <<sDefaults, valVars, genVars, waitVars, routeVars, navVars, pureVars, bmVars, dbVars, gvVars, pollVars>>

\* settings.get(key)
GetSetting ==
    \E key \in SettingKeys :
        /\ sOp' = [ran |-> TRUE, op |-> "get", key |-> key, value |-> Undefined,
                   result |-> SettingsGet(sStore, sDefaults, key)]
        /\ UNCHANGED <<sStore, sDefaults, valVars, genVars, waitVars, routeVars, navVars, pureVars, bmVars, dbVars, gvVars, pollVars>>

\* settings.getAll()
GetAllSettings ==
    /\ sOp' = [ran |-> TRUE, op |-> "getAll", key |-> "", value |-> Undefined,
               result |-> SettingsGetAll(sStore, sDefaults)]
    /\ UNCHANGED <<sStore, sDefaults, valVars, genVars, waitVars, routeVars, navVars, pureVars, bmVars, dbVars, gvVars, pollVars>>

\* nothing stored, the template's defaults
SettingsInit ==
    /\ sStore = [key \in SettingKeys |-> Undefined]
    /\ sDefaults = TemplateDefaults
    /\ sOp = NotRun

\* ---------------------------------------------------------------- debounce
\* advanced-template.user.js Utils.debounce.  dTimers is the browser's table
\* of pending timers set by the returned function, each [id, due, args];
\* dTimeout is the closure's variable timeout (0 while undefined); dCalls the
\* calls of the returned function and dInvoked the invocations of func.

CallArgs == {"a", "b"}

\* a returned function that sets its timer without clearing the one before
ClearTimeoutNothing(timers, id) == timers

\* clearTimeout(timeout)
ClearTimeout(timers, id) == {t \in timers : t.id # id}

\* executedFunction(...args)
DebouncedCall ==
    /\ Len(dCalls) < MaxDebounceCalls
    /\ dNow + DebounceWait <= MaxDebounceTime
    /\ \E args \in CallArgs :
          LET id == Len(dCalls) + 1
          IN  /\ dTimers' = ClearTimeout(dTimers, dTimeout)
                               \cup {[id |-> id, due |-> dNow + DebounceWait, args |-> args]}
              /\ dTimeout' = id
              /\ dCalls' = Append(dCalls, [at |-> dNow, args |-> args])
    /\ UNCHANGED <<dNow, dInvoked>>
    /\ UNCHANGED <<valVars, genVars, waitVars, routeVars, navVars, pureVars, bmVars, setVars, gvVars, pollVars>>

\* A timer that is due fires: () => func.apply(this, args)
TimerFires ==
    /\ \E t \in dTimers :
          /\ t.due <= dNow
          /\ dTimers' = dTimers \ {t}
          /\ dInvoked' = Append(dInvoked, [at |-> dNow, args |-> t.args])
    /\ UNCHANGED <<dNow, dTimeout, dCalls>>
    /\ UNCHANGED <<valVars, genVars, waitVars, routeVars, navVars, pureVars, bmVars, setVars, gvVars, pollVars>>

\* Time passes; a timer may fire later than it is due.
DebounceTick ==
    /\ dNow < MaxDebounceTime
    /\ dNow' = dNow + 1
    /\ UNCHANGED <<dTimers, dTimeout, dCalls, dInvoked>>
    /\ UNCHANGED <<valVars, genVars, waitVars, routeVars, navVars, pureVars, bmVars, setVars, gvVars, pollVars>>

\* debounce(func, wait) has returned: let timeout; no timer set
DebounceInit ==
    dTimers = {} /\ dTimeout = 0 /\ dNow = 0 /\ dCalls = <<>> /\ dInvoked = <<>>

\* ------------------------------------------------- generate, then validate
\* The workflow of README.md: a file made by generate-userscript.sh, or a
\* shipped template, is handed to validate-userscript.sh.

TemplatePath(kind) ==
    CASE kind = "basic"    -> "templates/basic-template.user.js"
      [] kind = "advanced" -> "templates/advanced-template.user.js"
      [] kind = "spa"      -> "templates/spa-compatible.user.js"

\* bash generate-userscript.sh <name> <url> <kind>, answered with y when it
\* asks whether to overwrite
GenerateScript ==
    \E name \in Names : \E url \in {UrlGithub, UrlQuery} : \E kind \in TemplateKinds :
        \E reply \in IF Prompts(name, url, kind, outdir, tmplGone) THEN {"y"} ELSE {"-"} :
            GenerateCall(name, url, kind, reply)

\* bash validate-userscript.sh templates/<template>.user.js
ValidateTemplate ==
    /\ \E kind \in TemplateKinds \ tmplGone :
          gvRun' = [ran |-> TRUE, from |-> "template", kind |-> kind,
                    out |-> ValidatorRun(TemplatePath(kind), TemplateFile(kind))]
    /\ UNCHANGED <<valVars, genVars, waitVars, routeVars, navVars, pureVars, bmVars, setVars, dbVars, pollVars>>

\* bash validate-userscript.sh <name>.user.js, after the generator wrote it
ValidateGenerated ==
    /\ grun.ran
    /\ grun.ended = "generated"
    /\ gvRun' = [ran |-> TRUE, from |-> "generated",
                 kind |-> IF grun.kind = "" THEN "basic" ELSE grun.kind,
                 out |-> ValidatorRun(<<grun.name, ".user.js">>, outdir[grun.name])]
    /\ UNCHANGED <<valVars, genVars, waitVars, routeVars, navVars, pureVars, bmVars, setVars, dbVars, pollVars>>

\* ------------------------------------------------------- bookmarker init
\* README.md, the example bookmarker: the last statement of the script and
\* init.  iVideoId is what getVideoId() returns on the page ("null": no v
\* parameter), iStage the progress of the script, iPoll whether the interval
\* waitForVideo is set, iVideo whether the document holds a video element,
\* iButtons and iPanels the elements appended to the body, iTicks the runs of
\* the interval's callback.

PageVideoIds == {"null", "", "dQw4", "kJQP"}

ReadyStates == {"loading", "interactive", "complete"}

\* if (!getVideoId()): null and the empty string are falsy
HasVideoId(id) == id \notin {"null", ""}

\* a callback that leaves its interval running
ClearIntervalNothing(poll) == poll

\* clearInterval(waitForVideo)
ClearInterval(poll) == FALSE

\* init(): iPoll' is whether setInterval was called
InitCall ==
    /\ iStage' = "inited"
    /\ iPoll' = HasVideoId(iVideoId)
    /\ UNCHANGED <<iVideoId, iReady, iVideo, iButtons, iPanels, iTicks>>

\* The script runs: init at once, or as listener of DOMContentLoaded.
ScriptRuns ==
    /\ iStage = "start"
    /\ IF iReady = "loading"
       THEN /\ iStage' = "listening"
            /\ UNCHANGED <<iVideoId, iReady, iPoll, iVideo, iButtons, iPanels, iTicks>>
       ELSE InitCall
    /\ UNCHANGED <<valVars, genVars, waitVars, routeVars, navVars, pureVars, bmVars, setVars, dbVars, gvVars>>

\* The document finishes parsing and fires DOMContentLoaded.
DomContentLoaded ==
    /\ iReady = "loading"
    /\ iReady' = "interactive"
    /\ IF iStage = "listening"
       THEN /\ iStage' = "inited"
            /\ iPoll' = HasVideoId(iVideoId)
       ELSE UNCHANGED <<iStage, iPoll>>
    /\ UNCHANGED <<iVideoId, iVideo, iButtons, iPanels, iTicks>>
    /\ UNCHANGED <<valVars, genVars, waitVars, routeVars, navVars, pureVars, bmVars, setVars, dbVars, gvVars>>

\* The page inserts or removes its video element.
VideoChange ==
    /\ iVideo' = ~iVideo
    /\ UNCHANGED <<iVideoId, iReady, iStage, iPoll, iButtons, iPanels, iTicks>>
    /\ UNCHANGED <<valVars, genVars, waitVars, routeVars, navVars, pureVars, bmVars, setVars, dbVars, gvVars>>

\* The callback of setInterval(..., 500)
PollTick ==
    /\ iPoll
    /\ iTicks < MaxPollTicks
    /\ iTicks' = iTicks + 1
    /\ IF iVideo
       THEN /\ iPoll' = ClearInterval(iPoll)
            /\ iButtons' = iButtons + 1      \* createToggleButton()
            /\ iPanels' = iPanels + 1        \* createPanel()
       ELSE UNCHANGED <<iPoll, iButtons, iPanels>>
    /\ UNCHANGED <<iVideoId, iReady, iStage, iVideo>>
    /\ UNCHANGED <<valVars, genVars, waitVars, routeVars, navVars, pureVars, bmVars, setVars, dbVars, gvVars>>

\* The page as the script finds it.
PollInit ==
    /\ iVideoId \in PageVideoIds
    /\ iReady \in ReadyStates
    /\ iVideo \in BOOLEAN
    /\ iStage = "start" /\ iPoll = FALSE
    /\ iButtons = 0 /\ iPanels = 0 /\ iTicks = 0

\* ------------------------------------------------------- specifications

TitleParked  == tName = <<>> /\ tTitle = NotRun
DomainParked == dUrl = <<>> /\ dDomain = NotRun
BookmarkParked == gmStore = <<>> /\ bmOp = NotRun
SettingsParked == sStore = <<>> /\ sDefaults = <<>> /\ sOp = NotRun
DebounceParked == dTimers = {} /\ dTimeout = 0 /\ dNow = 0 /\ dCalls = <<>> /\ dInvoked = <<>>
GenValParked == gvRun = NotRun
PollParked   == /\ iVideoId = "null" /\ iReady = "complete" /\ iStage = "start" /\ iPoll = FALSE
                /\ iVideo = FALSE /\ iButtons = 0 /\ iPanels = 0 /\ iTicks = 0
LateParked   == SettingsParked /\ DebounceParked /\ GenValParked /\ PollParked
PureParked   == TitleParked /\ DomainParked /\ BookmarkParked

GenParked   == tmplGone = {} /\ outdir = <<>> /\ grun = NotRun
WaitParked  == /\ wState = "idle" /\ wObserving = FALSE /\ wQueued = FALSE
               /\ wPresent = FALSE /\ wNow = 0 /\ wStart = 0 /\ wTimeout = 0
               /\ wLog = <<>>
RouteParked == routes = <<>> /\ rrun = NotRun
NavParked   == /\ location = "" /\ lastUrl = "" /\ navQueued = {}
               /\ navCalls = <<>> /\ navStep = NotRun /\ pageLog = <<>>

\* The generator, run again and again in one working directory.
InitGenerate == GenInit /\ ValParked /\ WaitParked /\ RouteParked /\ NavParked /\ PureParked /\ LateParked
NextGenerate == Generate
SpecGenerate == InitGenerate /\ [][NextGenerate]_vars

\* One call of waitForElement in a page that changes while time passes.
InitWait == WaitInit /\ ValParked /\ GenParked /\ RouteParked /\ NavParked /\ PureParked /\ LateParked
NextWait == WaitCall \/ DomMutation \/ AttributeChange \/ Deliver \/ Tick
SpecWait == InitWait /\ [][NextWait]_vars

\* The same with what the browser guarantees: the clock advances and a queued
\* notification is delivered.  That the page mutates at all is not guaranteed.
FairWait == SpecWait /\ WF_vars(Tick) /\ WF_vars(Deliver)

\* A router that routes are added to and urls are handled by.
InitRoute == RouteInit /\ ValParked /\ GenParked /\ WaitParked /\ NavParked /\ PureParked /\ LateParked
NextRoute == AddRoute \/ Handle
SpecRoute == InitRoute /\ [][NextRoute]_vars

\* The navigation detector on a page that navigates and renders.
InitNav == NavInit /\ ValParked /\ GenParked /\ WaitParked /\ RouteParked /\ PureParked /\ LateParked
NextNav == PushState \/ PageRender \/ BackForward \/ MutationCallback \/ PopstateListener
SpecNav == InitNav /\ [][NextNav]_vars

\* The same with what the browser guarantees: a queued notification or event
\* is delivered.  That the page renders or the user goes back is not.
FairNav == SpecNav /\ WF_vars(MutationCallback) /\ WF_vars(PopstateListener)

\* The title of every name.
InitTitle == TitleInit /\ DomainParked /\ BookmarkParked /\ ValParked /\ GenParked /\ WaitParked /\ RouteParked /\ NavParked /\ LateParked
NextTitle == MakeTitle
SpecTitle == InitTitle /\ [][NextTitle]_vars

\* The icon host of every url pattern.
InitDomain == DomainInit /\ TitleParked /\ BookmarkParked /\ ValParked /\ GenParked /\ WaitParked /\ RouteParked /\ NavParked /\ LateParked
NextDomain == MakeDomain
SpecDomain == InitDomain /\ [][NextDomain]_vars

\* The bookmarker's two operations on any video at any time.
InitBookmark == BookmarkInit /\ TitleParked /\ DomainParked /\ ValParked /\ GenParked /\ WaitParked /\ RouteParked /\ NavParked /\ LateParked
NextBookmark == AddBookmark \/ DeleteBookmark
SpecBookmark == InitBookmark /\ [][NextBookmark]_vars

\* The settings manager, set and read in any order.
InitSettings == SettingsInit /\ DebounceParked /\ GenValParked /\ PollParked /\ ValParked /\ GenParked /\ WaitParked /\ RouteParked /\ NavParked /\ PureParked
NextSettings == SetSetting \/ GetSetting \/ GetAllSettings
SpecSettings == InitSettings /\ [][NextSettings]_vars

\* A debounced function called at any times, while timers fire.
InitDebounce == DebounceInit /\ SettingsParked /\ GenValParked /\ PollParked /\ ValParked /\ GenParked /\ WaitParked /\ RouteParked /\ NavParked /\ PureParked
NextDebounce == DebouncedCall \/ TimerFires \/ DebounceTick
SpecDebounce == InitDebounce /\ [][NextDebounce]_vars

\* The same with what the browser guarantees: the clock advances and a timer
\* that is due fires.
FairDebounce == SpecDebounce /\ WF_vars(DebounceTick) /\ WF_vars(TimerFires)

\* The generator and the validator, run one after the other.
InitGenValidate == GenInit /\ gvRun = NotRun /\ PollParked /\ SettingsParked /\ DebounceParked /\ ValParked /\ WaitParked /\ RouteParked /\ NavParked /\ PureParked
NextGenValidate == GenerateScript \/ ValidateTemplate \/ ValidateGenerated
SpecGenValidate == InitGenValidate /\ [][NextGenValidate]_vars

\* The example bookmarker starting on a page.
InitPoll == PollInit /\ SettingsParked /\ DebounceParked /\ GenValParked /\ ValParked /\ GenParked /\ WaitParked /\ RouteParked /\ NavParked /\ PureParked
NextPoll == ScriptRuns \/ DomContentLoaded \/ VideoChange \/ PollTick
SpecPoll == InitPoll /\ [][NextPoll]_vars

\* The validator, run on files a user edits.
InitValidate == ValInit /\ GenParked /\ WaitParked /\ RouteParked /\ NavParked /\ PureParked /\ LateParked
NextValidate == CreateScript \/ AddLine \/ Validate
SpecValidate == InitValidate /\ [][NextValidate]_vars

\* ------------------------------------------------------ validator claims

\* The latest run was given the path of the file, and the file exists.
RanOnFile == vrun.ran /\ vrun.arg = ScriptPath /\ script # NoFile

ErrorFires(file) ==
    \E k \in DOMAIN Checks : Checks[k].sev = "error" /\ Fires(Checks[k], file)

\* C1: on every existing input file the validator exits 0 whenever no
\* error-severity check fires, however many warning-severity checks fire, and
\* exits 1 whenever at least one error-severity check fires.
C1_ExitReflectsErrors ==
    RanOnFile => vrun.out.exit = (IF ErrorFires(script) THEN 1 ELSE 0)

\* A metadata declaration of key: a line "// <key>" followed by a blank or by
\* the end of the line.
Declares(line, key) ==
    \/ line = <<"//", " ", key>>
    \/ HasPrefix(line, <<"//", " ", key, " ">>)

MissingKeys(file) ==
    {k \in DOMAIN RequiredFields :
        ~\E i \in DOMAIN file : Declares(file[i], RequiredFields[k])}

\* C2: for every file the validator counts at least one error for each of the
\* required keys @name, @version, @match that the file does not declare, reports
\* each of them, and exits with failure when one is missing; a file that declares
\* @namespace but not @name is reported as missing @name.
C2_MissingKeysCounted ==
    RanOnFile =>
        /\ vrun.out.errors >= Cardinality(MissingKeys(script))
        /\ \A k \in MissingKeys(script) : RequiredFields[k] \in vrun.out.reported
        /\ MissingKeys(script) # {} => vrun.out.exit # 0

\* A @grant declaration line for func, whatever the number of blanks.
GrantDeclared(func, file) ==
    \E i \in DOMAIN file : \E n \in 1..Len(file[i]) : file[i] = Meta("@grant", n, <<func>>)

FuncOccurs(func, file) == \E i \in DOMAIN file : Contains(file[i], <<func>>)

\* C3: each recognized GM_* name that occurs in the file without a @grant
\* declaration line for it is reported as an error, and a name whose @grant
\* declaration line is in the file is not reported, whatever whitespace
\* separates '@grant' from the name.
C3_GrantErrors ==
    RanOnFile =>
        \A k \in DOMAIN GmFunctions :
            LET func == GmFunctions[k]
            IN  /\ (FuncOccurs(func, script) /\ ~GrantDeclared(func, script))
                       => func \in vrun.out.reported
                /\ GrantDeclared(func, script) => func \notin vrun.out.reported

\* ------------------------------------------------------ generator claims

Placeholders == { <<"My", " ", "Userscript">>,
                  <<"Advanced", " ", "Userscript", " ", "Template">>,
                  <<"SPA", "-", "Compatible", " ", "Template">> }

HasLine(file, line) == \E i \in DOMAIN file : file[i] = line

\* The latest run had a name, a url and one of the three kinds, found its
\* template and was not stopped at the overwrite prompt.
RanToGenerate == grun.ran /\ grun.ended \in {"generated", "sed-failed"}

\* C4: for all valid inputs the generator writes the file <name>.user.js, whose
\* @name line carries the title-cased name, whose @match line carries the url
\* pattern exactly as given, whose @icon line carries the host of the url, and
\* in which none of the placeholder titles remains.
C4_OutputReflectsInputs ==
    RanToGenerate =>
        LET file == outdir[grun.name]
        IN  /\ grun.exit = 0
            /\ file # NoFile
            /\ HasLine(file, Meta("@name", 9, ScriptTitle(grun.name)))
            /\ HasLine(file, Meta("@match", 8, grun.url))
            /\ HasLine(file, IconLine(<<grun.url[2]>>))
            /\ \A i \in DOMAIN file : \A p \in Placeholders : ~Contains(file[i], p)

\* C5: when the name or the url argument is missing, when the kind is not one
\* of basic, advanced, spa, or when the template file does not exist, the
\* generator exits with status 1 without reaching the overwrite prompt and
\* creates or modifies no file, even if the output file already exists.
C5_RejectedRunWritesNothing ==
    [][ (/\ grun'.ran
         /\ \/ grun'.name = <<>>
            \/ grun'.url = <<>>
            \/ grun'.kind \notin {"", "basic", "advanced", "spa"}
            \/ (IF grun'.kind = "" THEN "basic" ELSE grun'.kind) \in tmplGone)
        => (grun'.exit = 1 /\ grun'.reply = "-" /\ outdir' = outdir) ]_vars

\* A run with an unknown kind was rejected although its output file exists.
C5_Witness ==
    /\ grun.ran /\ grun.kind = "api" /\ grun.exit = 1
    /\ grun.name \in Names /\ grun.url # <<>>
    /\ outdir[grun.name] # NoFile

\* C6: when the output file already exists, the generator overwrites it only if
\* the reply to the prompt is y or Y; for any other reply (another character or
\* a bare Enter) it exits with status 0 and leaves every file unchanged.
C6_OverwriteOnlyOnYes ==
    [][ (grun'.ran /\ grun'.name \in Names /\ outdir[grun'.name] # NoFile)
        => /\ outdir'[grun'.name] # outdir[grun'.name] => grun'.reply \in {"y", "Y"}
           /\ grun'.reply \in (Replies \ {"y", "Y", "EOF"})
                 => (grun'.exit = 0 /\ outdir' = outdir) ]_vars

\* The reply n kept a file that the run would have replaced with other content.
C6_Witness ==
    /\ grun.ran /\ grun.reply = "n" /\ grun.exit = 0
    /\ outdir[grun.name] # NoFile
    /\ outdir[grun.name] #
          RenderTable[IF grun.kind = "" THEN "basic" ELSE grun.kind, grun.name, grun.url].file

\* ------------------------------------------------- waitForElement claims

TimedOut == wNow - wStart > wTimeout

\* C7: with a selector that never matches, waitForElement never resolves, does
\* not reject before the timeout has elapsed, rejects at most once, and once
\* the timeout has elapsed the rejection does eventually occur.
C7_TimeoutExactlyOnce ==
    ([]~wPresent) =>
        /\ [](wState # "resolved")
        /\ [](wState = "rejected" => TimedOut)
        /\ [](Len(wLog) <= 1)
        /\ []((wState = "pending" /\ TimedOut) => <>(wState = "rejected"))

Settled == wState \in {"resolved", "rejected"}

\* C8: waitForElement resolves at once, subscribing no observer, when the
\* selector matches at call time; otherwise every delivered notification
\* re-checks the selector and the first one at which it matches resolves.  At
\* most one resolve or reject is ever made, and once the promise has settled
\* the observer is disconnected and nothing changes it again.
C8_ResolvesOnFirstMatch ==
    /\ [](Len(wLog) <= 1 /\ (Settled <=> Len(wLog) = 1) /\ (Settled => ~wObserving))
    /\ [][ /\ (wState = "idle" /\ wState' # "idle") =>
                IF wPresent THEN wState' = "resolved" /\ ~wObserving'
                ELSE wState' = "pending" /\ wObserving'
           /\ (wState = "pending" /\ wQueued /\ ~wQueued') =>
                IF wPresent THEN wState' = "resolved" /\ ~wObserving'
                ELSE wState' # "resolved"
           /\ (wState = "pending" /\ wState' = "resolved") => (wQueued /\ wPresent)
           /\ Settled => (wState' = wState /\ wLog' = wLog /\ ~wObserving')
       ]_vars

\* A notification found the element, after an earlier one had not.
C8_Witness ==
    /\ wState = "resolved"
    /\ wLog = <<[call |-> "resolve", via |-> "observer"]>>
    /\ ~wObserving
    /\ wNow > wStart

\* ----------------------------------------------------------- route claims

MatchingRoutes(url) == {k \in DOMAIN routes : RouteMatch(routes[k].pattern, url).ok}

\* C9: routes are resolved by first match in registration order: when route A
\* was added before route B and the url matches the patterns of both,
\* handle(url) invokes A's handler exactly once and no other handler, and
\* match(url) returns A's handler.
C9_FirstMatchWins ==
    rrun.ran =>
        \A a \in MatchingRoutes(rrun.url) :
            (\A b \in MatchingRoutes(rrun.url) : a <= b) =>
                /\ Len(rrun.calls) = 1
                /\ rrun.calls[1].handler = routes[a].handler
                /\ rrun.matched.found /\ rrun.matched.handler = routes[a].handler
                /\ rrun.ret

\* Two routes with different handlers both match the handled url.
C9_Witness ==
    /\ rrun.ran
    /\ \E a, b \in MatchingRoutes(rrun.url) :
          /\ a < b
          /\ routes[a].handler # routes[b].handler
          /\ \A c \in MatchingRoutes(rrun.url) : a <= c
          /\ rrun.calls = <<[handler |-> routes[a].handler, args |-> rrun.matched.params]>>

\* ------------------------------------------------------ navigation claims

\* a step of either listener: it takes its notification off the queue
ListenerStep == navQueued' # navQueued /\ navQueued' \subseteq navQueued

\* C10: on every mutation notification and every popstate event the callback
\* is invoked if and only if the location differs from the last known url;
\* when invoked it receives the current url and the last known url has
\* already been updated to it; when they are equal the step changes nothing
\* and invokes nothing; after every step the last known url equals the
\* location observed at that step.
C10_StepInvokesIffChanged ==
    [][ListenerStep =>
          /\ IF location # lastUrl
             THEN navCalls' = Append(navCalls, [url |-> location, lastUrl |-> location])
             ELSE navCalls' = navCalls /\ lastUrl' = lastUrl
          /\ lastUrl' = location
          /\ location' = location]_vars

\* The observer's callback has found the location changed for the second
\* time and has handed the new url to the callback.
C10_Witness ==
    /\ navStep.ran /\ navStep.invoked /\ navStep.kind = "mutation"
    /\ Len(navCalls) = 2
    /\ navCalls[2].url = location /\ navCalls[1].url # location
    /\ lastUrl = location

\* ----------------------------------------------------- validator, re-run

DarkModeTitle == <<"Dark", " ", "Mode">>

\* the lines of file that declare @name: "// @name" and a blank
NameLines(file) ==
    {i \in DOMAIN file : HasPrefix(file[i], <<"//", " ", "@name", " ">>)}

\* C12: generating with name dark-mode, url https://github.com/* and kind
\* advanced yields the file dark-mode.user.js, which contains the line
\* "// @match        https://github.com/*", whose @name is "Dark Mode", and in
\* which no occurrence of the advanced template's placeholder title remains:
\* where the template had it the file has "Dark Mode".
C12_DarkModeExample ==
    (/\ RanToGenerate
     /\ grun.name = NameDarkMode /\ grun.url = UrlGithub /\ grun.kind = "advanced") =>
        LET file == outdir[NameDarkMode]
            placeholder == <<"Advanced", " ", "Userscript", " ", "Template">>
        IN  /\ grun.exit = 0
            /\ file # NoFile
            /\ Len(file) = Len(AdvancedTemplate)
            /\ HasLine(file, Meta("@match", 8, UrlGithub))
            /\ NameLines(file) # {}
            /\ \A i \in NameLines(file) : file[i] = Meta("@name", 9, DarkModeTitle)
            /\ \A i \in DOMAIN file :
                  /\ ~Contains(file[i], placeholder)
                  /\ Contains(AdvancedTemplate[i], placeholder) => Contains(file[i], DarkModeTitle)

\* The example has been run and has written its file.
C12_Witness ==
    /\ grun.ran /\ grun.ended = "generated"
    /\ grun.name = NameDarkMode /\ grun.url = UrlGithub /\ grun.kind = "advanced"
    /\ HasLine(outdir[NameDarkMode], Meta("@name", 9, DarkModeTitle))

\* --------------------------------------------------- generator, the frame

\* the lines of the template that one of the four substitutions addresses:
\* the @name, @match and @icon lines and those holding a placeholder title
Substituted(line) ==
    \/ \E key \in {"@name", "@match", "@icon"} : HasPrefix(line, <<"//", " ", key, " ">>)
    \/ \E p \in Placeholders : Contains(line, p)

\* the kind a run used: ${3:-basic}
KindOf(run) == IF run.kind = "" THEN "basic" ELSE run.kind

\* C13: the generated file differs from the selected template only by the
\* four substitutions (the @name line, the @match line, the @icon line and
\* the placeholder titles): every other line of the template, the
\* @namespace, @version, @description, @author, @grant and @run-at lines
\* included, stands unchanged in the output at its place.
C13_OnlyFourSubstitutions ==
    RanToGenerate =>
        LET file == outdir[grun.name]
            template == TemplateFile(KindOf(grun))
        IN  /\ file # NoFile
            /\ Len(file) = Len(template)
            /\ \A i \in DOMAIN template :
                  ~Substituted(template[i]) => file[i] = template[i]

\* ------------------------------------------------ generator, title and host

\* a word in lower case
LowerCase(word) ==
    CASE word \in {"dark", "Dark", "DARK", "dARK"} -> "dark"
      [] word \in {"mode", "MODE"}                 -> "mode"
      [] word = "darkMode"                         -> "darkmode"
      [] OTHER                                     -> word

\* a lower-case word with its first letter in upper case
UpperFirst(word) ==
    CASE word = "dark"     -> "Dark"
      [] word = "mode"     -> "Mode"
      [] word = "darkmode" -> "Darkmode"
      [] OTHER             -> word

\* lower-case the name, replace separators with spaces, upper-case the first
\* letter of each word
TitleCase(name) ==
    [i \in DOMAIN name |-> IF name[i] = "-" THEN " " ELSE UpperFirst(LowerCase(name[i]))]

\* C14: the script title is the name lower-cased, with each '-' replaced by a
\* space and the first letter of each word in upper case; names that differ
\* only in letter case have the same title.
C14_TitleLowerCasesName ==
    tTitle.ran => tTitle.value = TitleCase(tName)

\* C15: the icon host is the url pattern with its http/https scheme stripped,
\* cut at the first '/', with a '*' in it replaced by example.com; for every
\* url pattern the host contains no '*' and no '/'.
C15_HostHasNoStarNoSlash ==
    dDomain.ran =>
        \A i \in DOMAIN dDomain.value : dDomain.value[i] \notin SlashLexemes \cup {"*"}

\* ------------------------------------------------- waitForElement, late match

\* C16: when the timeout has elapsed before any match was found,
\* waitForElement ends with the timeout outcome and does not resolve: the
\* promise never resolves at a notification delivered after the timeout has
\* elapsed, even if the selector matches at that notification.
C16_NoResolveAfterTimeout ==
    [][(wState = "pending" /\ TimedOut) => wState' # "resolved"]_vars

\* ------------------------------------------------- validator, independence

\* the checks of severity sev whose condition holds for file
Firing(sev, file) ==
    {k \in DOMAIN Checks : Checks[k].sev = sev /\ Fires(Checks[k], file)}

\* C17: on every existing file the validator runs all five groups of checks
\* to completion, and each check contributes zero or one finding
\* independently of the others: the final error count is the number of
\* error-severity checks whose condition holds for the file and the final
\* warning count the number of warning-severity checks whose condition holds.
C17_EveryCheckCounts ==
    RanOnFile =>
        /\ vrun.out.ended = "summary"
        /\ vrun.out.errors = Cardinality(Firing("error", script))
        /\ vrun.out.warnings = Cardinality(Firing("warning", script))

\* ------------------------------------------------- route pattern semantics

\* url read as the string pattern text with each placeholder standing for
\* one path segment: the lexemes up to the next '/', at least one; every
\* other lexeme of the pattern stands for itself.  params are the segments.
RECURSIVE SegmentMatch(_, _)
SegmentMatch(text, url) ==
    IF text = <<>> THEN (IF url = <<>> THEN [ok |-> TRUE, params |-> <<>>] ELSE NoMatch)
    ELSE IF url = <<>> THEN NoMatch
    ELSE IF IsPlaceholder(Head(text)) THEN
        LET slashes == {j \in DOMAIN url : url[j] = "/"}
            n == IF slashes = {} THEN Len(url)
                 ELSE (CHOOSE x \in slashes : \A y \in slashes : x <= y) - 1
            rest == SegmentMatch(Tail(text), SubSeq(url, n + 1, Len(url)))
        IN  IF n >= 1 /\ rest.ok
            THEN [ok |-> TRUE, params |-> <<SubSeq(url, 1, n)>> \o rest.params]
            ELSE NoMatch
    ELSE IF Head(text) = Head(url) THEN SegmentMatch(Tail(text), Tail(url))
    ELSE NoMatch

\* string patterns made of literal text and placeholders only
PlainPattern(pattern) ==
    pattern.kind = "string" /\ \A i \in DOMAIN pattern.text : pattern.text[i] # "*"

\* C18: for a string route pattern, match succeeds exactly when the whole url
\* equals the pattern with each ':name' placeholder replaced by one non-empty
\* path segment without '/', and the matched handler is called with the
\* captured segments as positional arguments from left to right; handle(url)
\* returns true exactly when it invoked one handler, and when no route
\* matches it invokes no handler and returns false.
C18_PatternSemantics ==
    rrun.ran =>
        /\ \A k \in DOMAIN routes :
              PlainPattern(routes[k].pattern) =>
                  (RouteMatch(routes[k].pattern, rrun.url).ok
                      <=> SegmentMatch(routes[k].pattern.text, rrun.url).ok)
        /\ (Len(routes) = 1 /\ PlainPattern(routes[1].pattern) /\ rrun.ret) =>
              rrun.calls[1].args = SegmentMatch(routes[1].pattern.text, rrun.url).params
        /\ rrun.ret <=> Len(rrun.calls) = 1
        /\ MatchingRoutes(rrun.url) = {} => rrun.calls = <<>> /\ ~rrun.ret

\* ------------------------------------------------------- bookmarker claims

\* the times of the list stored under bookmarks_<videoId>, in stored order
StoredTimes(store, videoId) ==
    LET stored == store[<<"bookmarks_", videoId>>]
        list == IF stored = Unset THEN <<>> ELSE JsonParse(stored)
    IN  [i \in DOMAIN list |-> list[i].time]

Ascending(times) == \A i, j \in DOMAIN times : i < j => times[i] < times[j]

\* times without the entries equal to t, order kept
Without(times, t) == SelectSeq(times, LAMBDA x : x # t)

\* C19: after any sequence of addBookmark and deleteBookmark the list stored
\* for each video has no two bookmarks with the same time and is in ascending
\* order of time; addBookmark at a time already bookmarked leaves the stored
\* list unchanged, and deleteBookmark(t) removes exactly the bookmark with
\* time t and keeps all others in order.
C19_ListsSortedUnique ==
    /\ [](\A v \in VideoIds : Ascending(StoredTimes(gmStore, v)))
    /\ [][/\ (bmOp'.op = "add" /\ bmOp'.alerted) =>
                StoredTimes(gmStore', bmOp'.videoId) = StoredTimes(gmStore, bmOp'.videoId)
          /\ bmOp'.op = "delete" =>
                StoredTimes(gmStore', bmOp'.videoId)
                    = Without(StoredTimes(gmStore, bmOp'.videoId), bmOp'.time)]_vars

\* A bookmark has been deleted from between two others of the same video.
C19_Witness ==
    /\ bmOp.ran /\ bmOp.op = "delete" /\ bmOp.time = 1
    /\ StoredTimes(gmStore, bmOp.videoId) = <<0, 2>>

\* C20: bookmark operations are isolated per video: addBookmark and
\* deleteBookmark performed while the current video id is V write only the
\* storage entry bookmarks_V, and the stored lists of all other video ids are
\* unchanged.
C20_PerVideoIsolation ==
    [][\A key \in DOMAIN gmStore :
          key # <<"bookmarks_", bmOp'.videoId>> => gmStore'[key] = gmStore[key]]_vars

\* An operation on one video while another video has bookmarks stored.
C20_Witness ==
    /\ bmOp.ran /\ bmOp.op = "add" /\ ~bmOp.alerted
    /\ Len(StoredTimes(gmStore, bmOp.videoId)) = 1
    /\ \E v \in VideoIds : v # bmOp.videoId /\ Len(StoredTimes(gmStore, v)) = 2

\* --------------------------------------------------------- settings claims

\* C21: get(key) returns the stored value whenever one has been stored for
\* the key, falsy values included, and the declared default only when there
\* is no stored override; after set(key, v), get(key) returns v; set never
\* changes the defaults table; getAll returns exactly the keys of the
\* defaults table, each mapped to get(key).
C21_StoredValueWins ==
    /\ [](sOp.ran /\ sOp.op = "get" =>
             sOp.result = IF sStore[sOp.key] \in SettingValues THEN sStore[sOp.key]
                          ELSE IF sOp.key \in DOMAIN TemplateDefaults
                               THEN TemplateDefaults[sOp.key] ELSE Undefined)
    /\ [](sOp.ran /\ sOp.op = "getAll" =>
             /\ DOMAIN sOp.result = DOMAIN TemplateDefaults
             /\ \A key \in DOMAIN sOp.result :
                   sOp.result[key] = IF sStore[key] \in SettingValues THEN sStore[key]
                                     ELSE TemplateDefaults[key])
    /\ [][/\ sDefaults' = sDefaults
          /\ (sOp.ran /\ sOp.op = "set" /\ sOp'.op = "get" /\ sOp'.key = sOp.key) =>
                sOp'.result = sOp.value]_vars

\* A falsy value was stored over a default and get has returned it.
C21_Witness ==
    /\ sOp.ran /\ sOp.op = "get" /\ sOp.key = "enabled"
    /\ sStore["enabled"] = JsValue("boolean", "false")
    /\ sOp.result = JsValue("boolean", "false")

\* ------------------------------------------- navigation: repeats, liveness

\* C22: a single navigation invokes the location-change callback at most
\* once, even when a popstate event and mutation notifications are all
\* delivered for it, in any order: the two listeners share lastUrl, so the
\* callback is never invoked twice in succession with the same url.
C22_NoRepeatedUrl ==
    /\ \A i \in 1..(Len(navCalls) - 1) : navCalls[i].url # navCalls[i + 1].url
    /\ navCalls # <<>> => lastUrl = navCalls[Len(navCalls)].url

\* After a navigation that the callback was invoked for, a further
\* notification has been delivered and has invoked nothing.
C22_Witness ==
    /\ navStep.ran /\ ~navStep.invoked /\ navStep.kind = "mutation"
    /\ Len(navCalls) = 2
    /\ navCalls[2].url = location

\* C23: every url change is eventually followed by an invocation of the
\* callback with the new url: whenever the location differs from the last
\* known url and stays so, the callback is eventually invoked with it, also
\* when the change was made by history.pushState with no DOM mutation and no
\* popstate event.
C23_EveryChangeDetected ==
    [](location # lastUrl => <>(lastUrl = location))

\* C24: initPage runs once at script start with no cleanup before it, and for
\* every detected navigation cleanup() runs exactly once and is complete
\* before the initPage() call for that navigation starts; initPage is never
\* started for a navigation whose cleanup has not run.
C24_CleanupBeforeInit ==
    /\ pageLog # <<>> /\ pageLog[1] = "initPage"
    /\ Len(pageLog) = 1 + 2 * Len(navCalls)
    /\ \A k \in 1..Len(navCalls) :
          pageLog[2 * k] = "cleanup" /\ pageLog[2 * k + 1] = "initPage"

\* Two navigations have been detected and handled.
C24_Witness ==
    /\ Len(navCalls) = 2
    /\ pageLog = <<"initPage", "cleanup", "initPage", "cleanup", "initPage">>

\* ---------------------------------------------------------- debounce claims

LastOf(seq) == seq[Len(seq)]

\* C25: for the function returned by debounce(func, wait), at most one timer
\* is pending at any time; each call cancels the pending timer and starts a
\* new one; func is never invoked while calls keep arriving less than wait
\* apart; and after the last call of a burst func is invoked exactly once,
\* with the arguments of that last call.
C25_DebounceFiresOncePerBurst ==
    /\ [](Cardinality(dTimers) <= 1)
    /\ [](dCalls # <<>> /\ dTimers # {} =>
             \A t \in dTimers : t.id = Len(dCalls) /\ t.args = LastOf(dCalls).args
                                 /\ t.due = LastOf(dCalls).at + DebounceWait)
    /\ [][dInvoked' # dInvoked =>
             /\ Len(dInvoked') = Len(dInvoked) + 1
             /\ LastOf(dInvoked').args = LastOf(dCalls).args
             /\ LastOf(dInvoked').at >= LastOf(dCalls).at + DebounceWait
             /\ dTimers' = {}]_vars
    /\ <>[](dCalls # <<>> =>
               /\ dInvoked # <<>>
               /\ dTimers = {}
               /\ LastOf(dInvoked).args = LastOf(dCalls).args
               /\ LastOf(dInvoked).at >= LastOf(dCalls).at + DebounceWait)

\* A burst of two calls less than wait apart, then one invocation with the
\* arguments of the second.
C25_Witness ==
    /\ Len(dCalls) = 2 /\ dCalls[1].args = "a" /\ dCalls[2].args = "b"
    /\ dCalls[2].at - dCalls[1].at < DebounceWait /\ dCalls[2].at > dCalls[1].at
    /\ dInvoked = <<[at |-> dCalls[2].at + DebounceWait, args |-> "b"]>>
    /\ dTimers = {}

\* ------------------------------------------------ generate-validate claims

\* C26: each of the three shipped templates, and every script the generator
\* produces from one of them, passes the validator with zero errors and exit
\* status 0.
C26_GeneratedPassesValidator ==
    gvRun.ran => gvRun.out.errors = 0 /\ gvRun.out.exit = 0

\* ------------------------------------------------- bookmarker init claims

\* C27: in the example bookmarker's init, on a page with a video id a tick
\* of the 500 ms poll creates nothing while no video element exists; the
\* first tick at which a video element exists cancels the poll and creates
\* the toggle button and the panel; the button and the panel are each
\* created at most once and no tick runs after creation.  On a page without
\* a video id no poll is started and nothing is created.
C27_PollCreatesOnce ==
    /\ [](iButtons <= 1 /\ iPanels <= 1)
    /\ [](iButtons + iPanels > 0 => ~iPoll)
    /\ [](~HasVideoId(iVideoId) => ~iPoll /\ iTicks = 0 /\ iButtons = 0 /\ iPanels = 0)
    /\ [][iTicks' # iTicks =>
             /\ HasVideoId(iVideoId) /\ iButtons = 0 /\ iPanels = 0
             /\ IF iVideo
                THEN iButtons' = 1 /\ iPanels' = 1 /\ ~iPoll'
                ELSE iButtons' = 0 /\ iPanels' = 0 /\ iPoll']_vars

\* Two ticks found no video element, the third found one and created the
\* button and the panel.
C27_Witness ==
    /\ HasVideoId(iVideoId)
    /\ iTicks = 3 /\ iButtons = 1 /\ iPanels = 1 /\ ~iPoll

====
